---- MODULE Spec2Model ----
(***************************************************************************)
(* Model of src/Betting_game.py: GameConfig.validate, BettingSimulator     *)
(* (constructor, run_one_simulation, _calculate_bet, run_simulations) and  *)
(* SimulationAnalyzer.calculate_statistics.                                *)
(*                                                                         *)
(* Real-valued quantities (stakes, bets, probabilities, ratios, samples)   *)
(* are exact rationals <<n, d>> in lowest terms with d > 0.  The Python    *)
(* code computes them in binary floating point; rounding is not modelled.  *)
(*                                                                         *)
(* The position of the program is pc:                                      *)
(*   "config"    a GameConfig exists, no BettingSimulator yet              *)
(*   "error"     the constructor raised ValueError                         *)
(*   "ready"     the simulator is constructed                              *)
(*   "loop"      run_simulations is at the head of its for loop (l.114)    *)
(*   "trial"     run_one_simulation is at the head of its for loop (l.66)  *)
(*   "ret"       run_one_simulation has returned (l.82 or l.84)            *)
(*   "collected" run_simulations has returned final_stakes (l.119)         *)
(*   "analyzed"  calculate_statistics has returned (l.148)                 *)
(***************************************************************************)
EXTENDS Integers, Sequences, FiniteSets

VARIABLES
    config,         \* the GameConfig handed to the constructor
    pc,             \* position of the program
    error,          \* message of the ValueError raised, or NoError
    simulator,      \* the BettingSimulator object, or NoSimulator
    sim,            \* run_simulations: iterations of the for loop done (l.114)
    final_stakes,   \* run_simulations: the list final_stakes (l.113)
    game,           \* run_one_simulation: loop variable game (l.66)
    current_stake,  \* run_one_simulation: current_stake (l.64)
    ret,            \* value returned by run_one_simulation
    stats,          \* tuple returned by calculate_statistics, or NoStats
    samples,        \* history: calls of random.random() in the current trial
    losses,         \* history: games lost in the current trial
    last,           \* history: the last game played in the current trial
    rules,          \* history: the betting rule used by each game of the trial
    bankrupt,       \* history: the stake was <= 0 right after some game
    trials          \* history: one record per trial that has ended, in order

vars == <<config, pc, error, simulator, sim, final_stakes, game, current_stake,
          ret, stats, samples, losses, last, rules, bankrupt, trials>>

----------------------------------------------------------------------------
(* Bounds of the model. *)

\* largest total_games of a configuration
MaxGames == 3
\* largest num_simulations of a configuration
MaxSims == 2

----------------------------------------------------------------------------
(* Exact rational arithmetic. *)

Abs(n) == IF n < 0 THEN -n ELSE n

RECURSIVE GCD(_, _)
GCD(a, b) == IF b = 0 THEN a ELSE GCD(b, a % b)

\* n/d in lowest terms, d > 0
Norm(n, d) == LET g == GCD(Abs(n), d) IN <<n \div g, d \div g>>

Zero == <<0, 1>>
One == <<1, 1>>
FromInt(n) == <<n, 1>>

RAdd(x, y) == Norm(x[1] * y[2] + y[1] * x[2], x[2] * y[2])
RSub(x, y) == Norm(x[1] * y[2] - y[1] * x[2], x[2] * y[2])
RMul(x, y) == Norm(x[1] * y[1], x[2] * y[2])
\* x / k for an integer k > 0
RDivInt(x, k) == Norm(x[1], x[2] * k)
RLt(x, y) == x[1] * y[2] < y[1] * x[2]
RLe(x, y) == x[1] * y[2] <= y[1] * x[2]

----------------------------------------------------------------------------
(* Inputs. *)

NoError == "none"
NoSimulator == [exists |-> FALSE]
NoStats == [computed |-> FALSE]
NoGame == [played |-> FALSE]

\* values of random.random(), uniform in [0, 1)
Samples == {Zero, <<51, 100>>, <<99, 100>>}

Configs ==
    [initial_stake         : {Zero, FromInt(100)},
     total_games           : 0 .. MaxGames,
     win_chance            : {Zero, <<51, 100>>, One},
     bet_percent           : {Zero, <<1, 5>>, One, <<3, 2>>},
     payout_ratio          : {Zero, <<1, 2>>, FromInt(2)},
     strategy_switch_point : -1 .. MaxGames + 1,
     num_simulations       : 0 .. MaxSims]

----------------------------------------------------------------------------
(* GameConfig.validate. *)

\* validate without the upper limit of bet_percent
validate_no_upper(c) ==
    IF RLe(c.initial_stake, Zero)
        THEN "Initial stake must be positive"
    ELSE IF ~(RLt(Zero, c.win_chance) /\ RLt(c.win_chance, One))
        THEN "Win chance must be between 0 and 1"
    ELSE IF ~RLt(Zero, c.bet_percent)
        THEN "Bet percent must be between 0 and 1"
    ELSE IF RLe(c.payout_ratio, Zero)
        THEN "Payout ratio must be positive"
    ELSE IF c.total_games <= 0
        THEN "Total games must be positive"
    ELSE IF c.num_simulations <= 0
        THEN "Number of simulations must be positive"
    ELSE NoError

\* the message of the ValueError validate raises for c, or NoError when it
\* returns normally
validate(c) ==
    IF RLe(c.initial_stake, Zero)
        THEN "Initial stake must be positive"
    ELSE IF ~(RLt(Zero, c.win_chance) /\ RLt(c.win_chance, One))
        THEN "Win chance must be between 0 and 1"
    ELSE IF ~(RLt(Zero, c.bet_percent) /\ RLe(c.bet_percent, One))
        THEN "Bet percent must be between 0 and 1"
    ELSE IF RLe(c.payout_ratio, Zero)
        THEN "Payout ratio must be positive"
    ELSE IF c.total_games <= 0
        THEN "Total games must be positive"
    ELSE IF c.num_simulations <= 0
        THEN "Number of simulations must be positive"
    ELSE NoError

----------------------------------------------------------------------------
(* BettingSimulator._calculate_bet. *)

\* the test with >= in place of >
UsesAggressive_ge(remaining_games) ==
    remaining_games >= simulator.config.strategy_switch_point

\* the test with the comparison reversed
UsesAggressive_lt(remaining_games) ==
    remaining_games < simulator.config.strategy_switch_point

\* the test of line 97: TRUE selects the aggressive (even-division) rule
UsesAggressive(remaining_games) ==
    remaining_games > simulator.config.strategy_switch_point

\* the aggressive rule dividing the initial stake, not the current one
calculate_bet_initial(stake, remaining_games) ==
    IF UsesAggressive(remaining_games)
        THEN RDivInt(simulator.config.initial_stake, remaining_games)
        ELSE RMul(stake, simulator.config.bet_percent)

\* the aggressive rule dividing by total_games, not by remaining_games
calculate_bet_total(stake, remaining_games) ==
    IF UsesAggressive(remaining_games)
        THEN RDivInt(stake, simulator.config.total_games)
        ELSE RMul(stake, simulator.config.bet_percent)

calculate_bet(stake, remaining_games) ==
    IF UsesAggressive(remaining_games)
        THEN RDivInt(stake, remaining_games)
        ELSE RMul(stake, simulator.config.bet_percent)

\* a win credited with the gross payout bet_amount * payout_ratio
UpdateStake_gross(stake, bet_amount, sample) ==
    IF RLt(sample, simulator.config.win_chance)
        THEN RAdd(stake, RMul(bet_amount, simulator.config.payout_ratio))
        ELSE RSub(stake, bet_amount)

\* lines 73-78: the stake after a game with the given bet and sample
UpdateStake(stake, bet_amount, sample) ==
    IF RLt(sample, simulator.config.win_chance)
        THEN RAdd(stake, RMul(bet_amount, RSub(simulator.config.payout_ratio, One)))
        ELSE RSub(stake, bet_amount)

\* the bankruptcy test with the comparison reversed
IsBankrupt_flipped(stake) == RLe(Zero, stake)

\* the bankruptcy test with < in place of <=
IsBankrupt_strict(stake) == RLt(stake, Zero)

\* line 81: the bankruptcy test
IsBankrupt(stake) == RLe(stake, Zero)

----------------------------------------------------------------------------
Init ==
    /\ config \in Configs
    /\ pc = "config"
    /\ error = NoError
    /\ simulator = NoSimulator
    /\ sim = 0
    /\ final_stakes = <<>>
    /\ game = 0
    /\ current_stake = Zero
    /\ ret = Zero
    /\ stats = NoStats
    /\ samples = 0
    /\ losses = 0
    /\ last = NoGame
    /\ rules = <<>>
    /\ bankrupt = FALSE
    /\ trials = <<>>

\* BettingSimulator.__init__ (lines 47-55)
Construct ==
    /\ pc = "config"
    /\ LET e == validate(config) IN
        IF e = NoError
            THEN /\ simulator' = [exists |-> TRUE, config |-> config]
                 /\ pc' = "ready"
                 /\ error' = error
            ELSE /\ error' = e
                 /\ pc' = "error"
                 /\ simulator' = simulator
    /\ UNCHANGED <<config, sim, final_stakes, game, current_stake, ret, stats,
                   samples, losses, last, rules, bankrupt, trials>>

\* run_simulations up to its loop (lines 104-113)
RunSimulations ==
    /\ pc = "ready"
    /\ final_stakes' = <<>>
    /\ sim' = 0
    /\ pc' = "loop"
    /\ UNCHANGED <<config, error, simulator, game, current_stake, ret, stats,
                   samples, losses, last, rules, bankrupt, trials>>

\* one more iteration of line 114: call run_one_simulation (line 64)
NextSimulation ==
    /\ pc = "loop"
    /\ sim < simulator.config.num_simulations
    /\ current_stake' = simulator.config.initial_stake
    /\ game' = 0
    /\ pc' = "trial"
    /\ samples' = 0
    /\ losses' = 0
    /\ last' = NoGame
    /\ rules' = <<>>
    /\ bankrupt' = FALSE
    /\ UNCHANGED <<config, error, simulator, sim, final_stakes, ret, stats, trials>>

\* one iteration of the loop of run_one_simulation (lines 66-82)
PlayGame ==
    /\ pc = "trial"
    /\ game < simulator.config.total_games
    /\ \E sample \in Samples :
        LET remaining_games == simulator.config.total_games - game
            bet_amount == calculate_bet(current_stake, remaining_games)
            after == UpdateStake(current_stake, bet_amount, sample)
            bust == RLe(after, Zero)
        IN  /\ current_stake' = after
            /\ samples' = samples + 1
            /\ losses' = IF RLt(sample, simulator.config.win_chance)
                            THEN losses ELSE losses + 1
            /\ last' = [played |-> TRUE, game |-> game,
                        remaining |-> remaining_games,
                        aggressive |-> UsesAggressive(remaining_games),
                        before |-> current_stake, bet |-> bet_amount,
                        sample |-> sample, after |-> after]
            /\ rules' = Append(rules, IF UsesAggressive(remaining_games)
                                         THEN "aggressive" ELSE "conservative")
            /\ bankrupt' = (bankrupt \/ bust)
            /\ IF IsBankrupt(after)
                  THEN /\ ret' = Zero
                       /\ pc' = "ret"
                       /\ game' = game
                       /\ trials' = Append(trials, [result |-> Zero,
                                                    bankrupt |-> bankrupt \/ bust])
                  ELSE /\ game' = game + 1
                       /\ UNCHANGED <<ret, pc, trials>>
    /\ UNCHANGED <<config, error, simulator, sim, final_stakes, stats>>

\* the loop of run_one_simulation is exhausted (line 84)
ReturnStake ==
    /\ pc = "trial"
    /\ game >= simulator.config.total_games
    /\ ret' = current_stake
    /\ pc' = "ret"
    /\ trials' = Append(trials, [result |-> current_stake, bankrupt |-> bankrupt])
    /\ UNCHANGED <<config, error, simulator, sim, final_stakes, game,
                   current_stake, stats, samples, losses, last, rules, bankrupt>>

\* the new result inserted at the front of the list
Collect_front(stakes, final_stake) == <<final_stake>> \o stakes

\* line 116: the list after final_stakes.append(final_stake)
Collect(stakes, final_stake) == Append(stakes, final_stake)

\* lines 115-116
AppendStake ==
    /\ pc = "ret"
    /\ final_stakes' = Collect(final_stakes, ret)
    /\ sim' = sim + 1
    /\ pc' = "loop"
    /\ UNCHANGED <<config, error, simulator, game, current_stake, ret, stats,
                   samples, losses, last, rules, bankrupt, trials>>

\* the loop of run_simulations is exhausted (lines 118-119)
ReturnStakes ==
    /\ pc = "loop"
    /\ sim >= simulator.config.num_simulations
    /\ pc' = "collected"
    /\ UNCHANGED <<config, error, simulator, sim, final_stakes, game,
                   current_stake, ret, stats, samples, losses, last, rules,
                   bankrupt, trials>>

----------------------------------------------------------------------------
(* SimulationAnalyzer.calculate_statistics. *)

RECURSIVE RSum(_)
RSum(s) == IF s = <<>> THEN Zero ELSE RAdd(Head(s), RSum(Tail(s)))

\* statistics.mean
Mean(s) == LET t == RSum(s) IN Norm(t[1], t[2] * Len(s))

\* the k-th smallest entry of s, 1 <= k <= Len(s)
Kth(s, k) ==
    CHOOSE x \in {s[i] : i \in 1 .. Len(s)} :
        /\ Cardinality({i \in 1 .. Len(s) : RLt(s[i], x)}) < k
        /\ k <= Cardinality({i \in 1 .. Len(s) : RLe(s[i], x)})

\* statistics.median
Median(s) ==
    LET n == Len(s) IN
        IF n % 2 = 1
            THEN Kth(s, (n + 1) \div 2)
            ELSE RDivInt(RAdd(Kth(s, n \div 2), Kth(s, n \div 2 + 1)), 2)

\* bust_rate left as a fraction, not a percentage
calculate_statistics_fraction(stakes) ==
    LET bust_count == Cardinality({i \in 1 .. Len(stakes) : stakes[i] = Zero})
    IN  [computed |-> TRUE,
         average |-> Mean(stakes),
         median |-> Median(stakes),
         bust_rate |-> Norm(bust_count, Len(stakes)),
         bust_count |-> bust_count]

calculate_statistics(stakes) ==
    LET bust_count == Cardinality({i \in 1 .. Len(stakes) : stakes[i] = Zero})
    IN  [computed |-> TRUE,
         average |-> Mean(stakes),
         median |-> Median(stakes),
         bust_rate |-> RMul(Norm(bust_count, Len(stakes)), FromInt(100)),
         bust_count |-> bust_count]

\* SimulationAnalyzer(config, final_stakes).calculate_statistics() (lines 256-257, 152)
CalculateStatistics ==
    /\ pc = "collected"
    /\ stats' = calculate_statistics(final_stakes)
    /\ pc' = "analyzed"
    /\ UNCHANGED <<config, error, simulator, sim, final_stakes, game,
                   current_stake, ret, samples, losses, last, rules, bankrupt,
                   trials>>

Next ==
    \/ Construct
    \/ RunSimulations
    \/ NextSimulation
    \/ PlayGame
    \/ ReturnStake
    \/ AppendStake
    \/ ReturnStakes
    \/ CalculateStatistics

Spec == Init /\ [][Next]_vars

----------------------------------------------------------------------------
(* Properties. *)

\* what the simulator was constructed with
cfg == simulator.config
InTrial == pc \in {"trial", "ret"}
LastWon == RLt(last.sample, cfg.win_chance)
AllRules(r) == \A i \in 1 .. Len(rules) : rules[i] = r

\* C1: run_one_simulation returns a value >= 0; it returns exactly 0 if and
\* only if the stake was <= 0 right after some game of the trial, and
\* otherwise it returns the strictly positive stake left after total_games
\* games.
C1_ReturnValue ==
    /\ pc = "ret" =>
        /\ RLe(Zero, ret)
        /\ (ret = Zero) <=> bankrupt
        /\ ~bankrupt => /\ ret = current_stake
                        /\ RLt(Zero, ret)
                        /\ samples = cfg.total_games
    /\ \A i \in 1 .. Len(trials) :
        /\ RLe(Zero, trials[i].result)
        /\ (trials[i].result = Zero) <=> trials[i].bankrupt

\* a bankrupt trial followed by a trial that returns a positive final stake
C1_Witness ==
    /\ pc = "ret"
    /\ Len(trials) = 2
    /\ trials[1].bankrupt /\ trials[1].result = Zero
    /\ ~bankrupt /\ RLt(Zero, ret)

\* C2: a trial draws exactly one sample per game played and never more than
\* total_games; once the stake is <= 0 after a game the trial has ended with
\* result 0: no further game is played and no further sample drawn, even
\* when games remain, and the recorded result stays 0.
C2_BankruptcyAbsorbing ==
    /\ simulator.exists =>
        /\ samples = Len(rules)
        /\ samples <= cfg.total_games
    /\ pc = "trial" =>
        /\ ~bankrupt
        /\ RLt(Zero, current_stake)
        /\ samples = game
    /\ bankrupt =>
        /\ pc # "trial"
        /\ samples = game + 1
        /\ last.game = game
        /\ RLe(last.after, Zero)
        /\ ret = Zero
    /\ \A i \in 1 .. Len(final_stakes) :
        trials[i].bankrupt => final_stakes[i] = Zero

\* a trial that went bankrupt while games remained
C2_Witness ==
    /\ pc = "ret"
    /\ bankrupt
    /\ ret = Zero
    /\ samples = game + 1
    /\ game + 1 < cfg.total_games

\* C3: the game with index g has remaining = total_games - g; it bets
\* current_stake / remaining when remaining > strategy_switch_point and
\* current_stake * bet_percent when remaining <= strategy_switch_point (so
\* also when remaining = strategy_switch_point); after a conservative game
\* no later game of the trial is aggressive.
C3_PhaseSelection ==
    /\ last.played =>
        /\ last.remaining = cfg.total_games - last.game
        /\ last.remaining > cfg.strategy_switch_point =>
            /\ last.aggressive
            /\ last.bet = RDivInt(last.before, last.remaining)
        /\ last.remaining <= cfg.strategy_switch_point =>
            /\ ~last.aggressive
            /\ last.bet = RMul(last.before, cfg.bet_percent)
    /\ \A i, j \in 1 .. Len(rules) :
        (i < j /\ rules[i] = "conservative") => rules[j] = "conservative"

\* the game at remaining = strategy_switch_point, played conservatively
\* right after an aggressive game, with a bet the aggressive rule would not
\* have made
C3_Witness ==
    /\ last.played
    /\ last.remaining = cfg.strategy_switch_point
    /\ ~last.aggressive
    /\ Len(rules) >= 2
    /\ rules[Len(rules) - 1] = "aggressive"
    /\ last.bet = RMul(last.before, cfg.bet_percent)
    /\ last.bet # RDivInt(last.before, last.remaining)

\* C4 as stated: strategy_switch_point <= 0 makes every game use the
\* fixed-percent rule, and strategy_switch_point >= total_games makes every
\* game use the even-division rule.
C4_AsStated ==
    last.played =>
        /\ cfg.strategy_switch_point <= 0 =>
            /\ AllRules("conservative")
            /\ last.bet = RMul(last.before, cfg.bet_percent)
        /\ cfg.strategy_switch_point >= cfg.total_games =>
            /\ AllRules("aggressive")
            /\ last.bet = RDivInt(last.before, last.remaining)

\* C4 amended: strategy_switch_point <= 0 makes every game use the
\* even-division rule (the conservative phase never activates), and
\* strategy_switch_point >= total_games makes every game use the
\* fixed-percent rule (the aggressive phase never activates).
C4_ExtremeSwitchPoints ==
    last.played =>
        /\ cfg.strategy_switch_point <= 0 =>
            /\ AllRules("aggressive")
            /\ last.bet = RDivInt(last.before, last.remaining)
        /\ cfg.strategy_switch_point >= cfg.total_games =>
            /\ AllRules("conservative")
            /\ last.bet = RMul(last.before, cfg.bet_percent)

\* a trial with strategy_switch_point = 0 that played all of its (at least
\* two) games, the last bet differing from the fixed-percent bet
C4_Witness ==
    /\ pc = "ret"
    /\ cfg.strategy_switch_point = 0
    /\ cfg.total_games >= 2
    /\ Len(rules) = cfg.total_games
    /\ AllRules("aggressive")
    /\ last.bet # RMul(last.before, cfg.bet_percent)

\* the configuration of the spec's concrete scenarios 1 and 2
Scenario ==
    /\ cfg.initial_stake = FromInt(100)
    /\ cfg.total_games = 1
    /\ cfg.bet_percent = <<1, 5>>
    /\ cfg.payout_ratio = FromInt(2)
    /\ cfg.strategy_switch_point = 1

\* C5: with bet b computed from the stake s before the game, a win (sample <
\* win_chance) makes the stake s + b * (payout_ratio - 1), a loss (sample >=
\* win_chance) makes it s - b, and nothing else changes the stake of a
\* trial; in the scenario configuration a win returns 120 and a loss 80.
C5_StakeUpdate ==
    /\ last.played =>
        /\ RLt(last.sample, cfg.win_chance) =>
            last.after = RAdd(last.before,
                              RMul(last.bet, RSub(cfg.payout_ratio, One)))
        /\ ~RLt(last.sample, cfg.win_chance) =>
            last.after = RSub(last.before, last.bet)
        /\ current_stake = last.after
    /\ (InTrial /\ ~last.played) => current_stake = cfg.initial_stake
    /\ (pc = "ret" /\ Scenario) =>
        /\ last.sample = Zero => ret = FromInt(120)
        /\ last.sample = <<99, 100>> => ret = FromInt(80)

\* the scenario's forced win, returning 120
C5_Witness ==
    /\ pc = "ret"
    /\ Scenario
    /\ last.sample = Zero
    /\ last.bet = FromInt(20)
    /\ ret = FromInt(120)

\* the configurations that C6 lists as rejected
Rejected(c) ==
    \/ RLe(c.initial_stake, Zero)
    \/ RLe(c.win_chance, Zero) \/ RLe(One, c.win_chance)
    \/ RLe(c.bet_percent, Zero) \/ RLt(One, c.bet_percent)
    \/ RLe(c.payout_ratio, Zero)
    \/ c.total_games <= 0
    \/ c.num_simulations <= 0

\* C6: for a configuration with initial_stake <= 0, win_chance <= 0 or >= 1,
\* bet_percent <= 0 or > 1, payout_ratio <= 0, total_games <= 0 or
\* num_simulations <= 0 the constructor raises, no simulator exists and no
\* game is played or sample drawn; any other configuration is accepted
\* without error.
C6_FailFast ==
    /\ Rejected(config) =>
        /\ pc \in {"config", "error"}
        /\ simulator = NoSimulator
        /\ samples = 0 /\ ~last.played /\ rules = <<>>
        /\ trials = <<>> /\ final_stakes = <<>>
        /\ pc = "error" => error # NoError
    /\ ~Rejected(config) =>
        /\ pc # "error"
        /\ error = NoError
        /\ pc # "config" => (simulator.exists /\ simulator.config = config)

\* the constructor has raised for bet_percent = 1.5, all else being valid
C6_Witness ==
    /\ pc = "error"
    /\ error = "Bet percent must be between 0 and 1"
    /\ config.bet_percent = <<3, 2>>
    /\ simulator = NoSimulator

\* C7: in every game 0 <= bet <= current_stake, in either phase, and the
\* stake after the game is never below 0, won or lost, for any
\* payout_ratio > 0.
C7_BetBound ==
    /\ last.played =>
        /\ RLe(Zero, last.bet)
        /\ RLe(last.bet, last.before)
        /\ RLe(Zero, last.after)
    /\ RLe(Zero, current_stake)

\* a won game with the whole stake bet and payout_ratio < 1
C7_Witness ==
    /\ last.played
    /\ last.bet = last.before
    /\ LastWon
    /\ RLt(cfg.payout_ratio, One)
    /\ RLt(last.after, last.before)
    /\ RLt(Zero, last.after)

\* C8: run_simulations runs the trials one after another, each to its end
\* before the next begins and each starting from initial_stake, and returns
\* exactly num_simulations entries, the i-th being the terminal stake of the
\* i-th trial run, every entry >= 0.
C8_SequentialTrials ==
    /\ Len(final_stakes) = sim
    /\ Len(trials) = IF pc = "ret" THEN sim + 1 ELSE sim
    /\ (pc = "trial" /\ game = 0) => current_stake = cfg.initial_stake
    /\ \A i \in 1 .. Len(final_stakes) :
        /\ final_stakes[i] = trials[i].result
        /\ RLe(Zero, final_stakes[i])
    /\ pc \in {"collected", "analyzed"} =>
        Len(final_stakes) = cfg.num_simulations

\* two trials with different terminal stakes have been returned
C8_Witness ==
    /\ pc = "collected"
    /\ Len(final_stakes) = 2
    /\ final_stakes[1] # final_stakes[2]
    /\ final_stakes[1] = trials[1].result

\* C9: bust_count is the number of entries equal to 0, which is the number
\* of trials that ended in bankruptcy; bust_rate is bust_count /
\* num_simulations * 100 and lies in [0, 100].
C9_Aggregates ==
    pc = "analyzed" =>
        /\ stats.bust_count =
            Cardinality({i \in 1 .. Len(final_stakes) : final_stakes[i] = Zero})
        /\ stats.bust_count =
            Cardinality({i \in 1 .. Len(trials) : trials[i].bankrupt})
        /\ stats.bust_rate = Norm(stats.bust_count * 100, cfg.num_simulations)
        /\ RLe(Zero, stats.bust_rate)
        /\ RLe(stats.bust_rate, FromInt(100))

\* one of two trials went bankrupt: bust_rate is 50
C9_Witness ==
    /\ pc = "analyzed"
    /\ cfg.num_simulations = 2
    /\ stats.bust_count = 1
    /\ stats.bust_rate = FromInt(50)

\* C10: while every game of a trial has used the even-division rule and been
\* lost, the stake after k losses is initial_stake * (total_games - k) /
\* total_games, positive for k < total_games and 0 at k = total_games, so
\* such a trial returns 0 only after total_games samples; under the
\* even-division rule a loss makes the stake <= 0 only when remaining = 1.
C10_EvenDivisionLosses ==
    /\ (InTrial /\ AllRules("aggressive") /\ losses = samples) =>
        /\ current_stake =
            Norm(cfg.initial_stake[1] * (cfg.total_games - samples),
                 cfg.initial_stake[2] * cfg.total_games)
        /\ samples < cfg.total_games =>
            (RLt(Zero, current_stake) /\ pc = "trial")
        /\ samples = cfg.total_games =>
            (current_stake = Zero /\ pc = "ret" /\ ret = Zero)
    /\ (last.played /\ last.aggressive /\ ~LastWon /\ RLe(last.after, Zero)) =>
        last.remaining = 1

\* a trial with strategy_switch_point = 0 that lost all of its (at least
\* two) games and returned 0 after total_games samples
C10_Witness ==
    /\ pc = "ret"
    /\ cfg.strategy_switch_point = 0
    /\ cfg.total_games >= 2
    /\ AllRules("aggressive")
    /\ losses = samples
    /\ samples = cfg.total_games
    /\ ret = Zero

====
